---------------------------- MODULE Spec2Model ----------------------------
(***************************************************************************)
(* The case taxonomy and registry of vectordb_bench/backend/cases.py:      *)
(* the CaseType enumeration, the Case class hierarchy with its catalog of  *)
(* concrete cases, the type2case registry, the accessors of CaseType and   *)
(* the Case.filters property.                                              *)
(*                                                                         *)
(* Representation.                                                         *)
(*   - Python's None is the empty sequence, a present optional value v is  *)
(*     the one-element sequence <<v>>.                                     *)
(*   - A member of an Enum is named by its member name (a string).         *)
(*   - A float literal of the catalog (0.01, 0.10, ..., 0.99) is kept as   *)
(*     its number of hundredths; Float64 gives the IEEE-754 double the     *)
(*     literal denotes, so that products are rounded as the machine does.  *)
(*   - A class body is the record of the fields it assigns; a class is     *)
(*     instantiated by walking its method resolution order.                *)
(***************************************************************************)
EXTENDS Integers, Sequences, FiniteSets, TLC

None == <<>>

Some(v) == <<v>>

Get(o) == o[1]

(***************************************************************************)
(* State.                                                                  *)
(*   held       the descriptor the caller holds (None before the first)    *)
(*   data_size  held.dataset.data.size as it is now                        *)
(*   prev       the latest request of held.filters: the size it read, what *)
(*              it returned, and whether the request before it read        *)
(*              another size (None before the first request)               *)
(*   outcome    what the most recent step returned or raised               *)
(***************************************************************************)
VARIABLES held, data_size, prev, outcome

vars == <<held, data_size, prev, outcome>>

(***************************************************************************)
(* vectordb_bench.config and vectordb_bench.backend.dataset are imported   *)
(* by cases.py; only their uses are visible here.  A configuration         *)
(* constant is an opaque number named by its attribute; a dataset manager  *)
(* is named by its dataset and the size it was requested with.             *)
(***************************************************************************)
config(attr) == [config |-> attr]

manager(ds, size) == [name |-> ds, size |-> size]

(***************************************************************************)
(* class CaseType(Enum): the body's assignments, in order.                 *)
(***************************************************************************)
CaseType ==
  <<
    <<"CapacityDim128", 1>>,
    <<"CapacityDim960", 2>>,
    <<"Performance768D100M", 3>>,
    <<"Performance768D10M", 4>>,
    <<"Performance768D1M", 5>>,
    <<"Performance768D10M1P", 6>>,
    <<"Performance768D1M1P", 7>>,
    <<"Performance768D10M99P", 8>>,
    <<"Performance768D1M99P", 9>>,
    <<"Performance1536D500K", 10>>,
    <<"Performance1536D5M", 11>>,
    <<"Performance1536D500K1P", 12>>,
    <<"Performance1536D5M1P", 13>>,
    <<"Performance1536D500K99P", 14>>,
    <<"Performance1536D5M99P", 15>>,
    <<"Performance960D100K90P", 16>>,
    <<"Performance128D500K90P", 17>>,
    <<"Performance960D100K80P", 18>>,
    <<"Performance128D500K80P", 19>>,
    <<"Performance960D100K70P", 20>>,
    <<"Performance128D500K70P", 21>>,
    <<"Performance960D100K60P", 22>>,
    <<"Performance128D500K60P", 23>>,
    <<"Performance960D100K50P", 24>>,
    <<"Performance128D500K50P", 25>>,
    <<"Performance960D100K40P", 26>>,
    <<"Performance128D500K40P", 27>>,
    <<"Performance960D100K30P", 28>>,
    <<"Performance128D500K30P", 29>>,
    <<"Performance960D100K20P", 30>>,
    <<"Performance128D500K20P", 31>>,
    <<"Performance960D100K10P", 32>>,
    <<"Performance128D500K10P", 33>>,
    <<"Custom", 100>>
  >>

\* Enum keeps, in definition order, the names whose value no earlier name has
\* (a later name with an earlier value is an alias, not a member).
EnumMembers(body) ==
  LET keep == { i \in DOMAIN body : \A j \in 1..(i-1) : body[j][2] # body[i][2] }
      F[i \in 0..Len(body)] ==
        IF i = 0 THEN <<>>
        ELSE IF i \in keep THEN Append(F[i-1], body[i][1]) ELSE F[i-1]
  IN  F[Len(body)]

\* list(CaseType): the members in definition order.
CaseTypeList == EnumMembers(CaseType)

CaseTypeSet == { CaseTypeList[i] : i \in DOMAIN CaseTypeList }

\* class CaseLabel(Enum)
CaseLabel == {"Load", "Performance"}

\* class Case(BaseModel): the annotated fields; none has a default.
CaseFields ==
  {"case_id", "label", "name", "description", "dataset",
   "load_timeout", "optimize_timeout", "filter_rate"}

\* CapacityCase with the optimize_timeout of PerformanceCase.
CapacityCase_pasted ==
  [base |-> "Case",
   body |->
    [label |-> "Load",
     filter_rate |-> None,
     load_timeout |-> config("CAPACITY_TIMEOUT_IN_SECONDS"),
     optimize_timeout |-> Some(config("OPTIMIZE_TIMEOUT_DEFAULT"))]]

CapacityCase ==
  [base |-> "Case",
   body |->
    [label |-> "Load",
     filter_rate |-> None,
     load_timeout |-> config("CAPACITY_TIMEOUT_IN_SECONDS"),
     optimize_timeout |-> None]]

PerformanceCase ==
  [base |-> "Case",
   body |->
    [label |-> "Performance",
     filter_rate |-> None,
     load_timeout |-> config("LOAD_TIMEOUT_DEFAULT"),
     optimize_timeout |-> Some(config("OPTIMIZE_TIMEOUT_DEFAULT"))]]

CapacityDim960 ==
  [base |-> "CapacityCase",
   body |->
    [case_id |-> "CapacityDim960",
     dataset |-> manager("GIST", 100000),
     name |-> "Capacity Test (960 Dim Repeated)",
     description |-> "This case tests the vector database's loading capacity by repeatedly inserting large-dimension vectors (GIST 100K vectors, <b>960 dimensions</b>) until it is fully loaded.\nNumber of inserted vectors will be reported."]]

CapacityDim128 ==
  [base |-> "CapacityCase",
   body |->
    [case_id |-> "CapacityDim128",
     dataset |-> manager("SIFT", 500000),
     name |-> "Capacity Test (128 Dim Repeated)",
     description |-> "This case tests the vector database's loading capacity by repeatedly inserting small-dimension vectors (SIFT 100K vectors, <b>128 dimensions</b>) until it is fully loaded.\nNumber of inserted vectors will be reported."]]

Performance768D10M ==
  [base |-> "PerformanceCase",
   body |->
    [case_id |-> "Performance768D10M",
     dataset |-> manager("COHERE", 10000000),
     name |-> "Search Performance Test (10M Dataset, 768 Dim)",
     description |-> "This case tests the search performance of a vector database with a large dataset (<b>Cohere 10M vectors</b>, 768 dimensions) at varying parallel levels.\nResults will show index building time, recall, and maximum QPS.",
     load_timeout |-> config("LOAD_TIMEOUT_768D_10M"),
     optimize_timeout |-> Some(config("OPTIMIZE_TIMEOUT_768D_10M"))]]

\* Performance768D1M with the case_id of the class above it.
Performance768D1M_pasted ==
  [base |-> "PerformanceCase",
   body |->
    [case_id |-> "Performance768D10M",
     dataset |-> manager("COHERE", 1000000),
     name |-> "Search Performance Test (1M Dataset, 768 Dim)",
     description |-> "This case tests the search performance of a vector database with a medium dataset (<b>Cohere 1M vectors</b>, 768 dimensions) at varying parallel levels.\nResults will show index building time, recall, and maximum QPS.",
     load_timeout |-> config("LOAD_TIMEOUT_768D_1M"),
     optimize_timeout |-> Some(config("OPTIMIZE_TIMEOUT_768D_1M"))]]

Performance768D1M ==
  [base |-> "PerformanceCase",
   body |->
    [case_id |-> "Performance768D1M",
     dataset |-> manager("COHERE", 1000000),
     name |-> "Search Performance Test (1M Dataset, 768 Dim)",
     description |-> "This case tests the search performance of a vector database with a medium dataset (<b>Cohere 1M vectors</b>, 768 dimensions) at varying parallel levels.\nResults will show index building time, recall, and maximum QPS.",
     load_timeout |-> config("LOAD_TIMEOUT_768D_1M"),
     optimize_timeout |-> Some(config("OPTIMIZE_TIMEOUT_768D_1M"))]]

\* Performance768D10M1P with the dataset of Performance768D1M1P.
Performance768D10M1P_pasted ==
  [base |-> "PerformanceCase",
   body |->
    [case_id |-> "Performance768D10M1P",
     filter_rate |-> Some(1),
     dataset |-> manager("COHERE", 1000000),
     name |-> "Filtering Search Performance Test (10M Dataset, 768 Dim, Filter 1%)",
     description |-> "This case tests the search performance of a vector database with a large dataset (<b>Cohere 10M vectors</b>, 768 dimensions) under a low filtering rate (<b>1% vectors</b>), at varying parallel levels.\nResults will show index building time, recall, and maximum QPS.",
     load_timeout |-> config("LOAD_TIMEOUT_768D_10M"),
     optimize_timeout |-> Some(config("OPTIMIZE_TIMEOUT_768D_10M"))]]

Performance768D10M1P ==
  [base |-> "PerformanceCase",
   body |->
    [case_id |-> "Performance768D10M1P",
     filter_rate |-> Some(1),
     dataset |-> manager("COHERE", 10000000),
     name |-> "Filtering Search Performance Test (10M Dataset, 768 Dim, Filter 1%)",
     description |-> "This case tests the search performance of a vector database with a large dataset (<b>Cohere 10M vectors</b>, 768 dimensions) under a low filtering rate (<b>1% vectors</b>), at varying parallel levels.\nResults will show index building time, recall, and maximum QPS.",
     load_timeout |-> config("LOAD_TIMEOUT_768D_10M"),
     optimize_timeout |-> Some(config("OPTIMIZE_TIMEOUT_768D_10M"))]]

Performance768D1M1P ==
  [base |-> "PerformanceCase",
   body |->
    [case_id |-> "Performance768D1M1P",
     filter_rate |-> Some(1),
     dataset |-> manager("COHERE", 1000000),
     name |-> "Filtering Search Performance Test (1M Dataset, 768 Dim, Filter 1%)",
     description |-> "This case tests the search performance of a vector database with a medium dataset (<b>Cohere 1M vectors</b>, 768 dimensions) under a low filtering rate (<b>1% vectors</b>), at varying parallel levels.\nResults will show index building time, recall, and maximum QPS.",
     load_timeout |-> config("LOAD_TIMEOUT_768D_1M"),
     optimize_timeout |-> Some(config("OPTIMIZE_TIMEOUT_768D_1M"))]]

Performance768D10M99P ==
  [base |-> "PerformanceCase",
   body |->
    [case_id |-> "Performance768D10M99P",
     filter_rate |-> Some(99),
     dataset |-> manager("COHERE", 10000000),
     name |-> "Filtering Search Performance Test (10M Dataset, 768 Dim, Filter 99%)",
     description |-> "This case tests the search performance of a vector database with a large dataset (<b>Cohere 10M vectors</b>, 768 dimensions) under a high filtering rate (<b>99% vectors</b>), at varying parallel levels.\nResults will show index building time, recall, and maximum QPS.",
     load_timeout |-> config("LOAD_TIMEOUT_768D_10M"),
     optimize_timeout |-> Some(config("OPTIMIZE_TIMEOUT_768D_10M"))]]

Performance768D1M99P ==
  [base |-> "PerformanceCase",
   body |->
    [case_id |-> "Performance768D1M99P",
     filter_rate |-> Some(99),
     dataset |-> manager("COHERE", 1000000),
     name |-> "Filtering Search Performance Test (1M Dataset, 768 Dim, Filter 99%)",
     description |-> "This case tests the search performance of a vector database with a medium dataset (<b>Cohere 1M vectors</b>, 768 dimensions) under a high filtering rate (<b>99% vectors</b>), at varying parallel levels.\nResults will show index building time, recall, and maximum QPS.",
     load_timeout |-> config("LOAD_TIMEOUT_768D_1M"),
     optimize_timeout |-> Some(config("OPTIMIZE_TIMEOUT_768D_1M"))]]

Performance768D100M ==
  [base |-> "PerformanceCase",
   body |->
    [case_id |-> "Performance768D100M",
     filter_rate |-> None,
     dataset |-> manager("LAION", 100000000),
     name |-> "Search Performance Test (100M Dataset, 768 Dim)",
     description |-> "This case tests the search performance of a vector database with a large 100M dataset (<b>LAION 100M vectors</b>, 768 dimensions), at varying parallel levels.\nResults will show index building time, recall, and maximum QPS.",
     load_timeout |-> config("LOAD_TIMEOUT_768D_100M"),
     optimize_timeout |-> Some(config("OPTIMIZE_TIMEOUT_768D_100M"))]]

Performance1536D500K ==
  [base |-> "PerformanceCase",
   body |->
    [case_id |-> "Performance1536D500K",
     filter_rate |-> None,
     dataset |-> manager("OPENAI", 500000),
     name |-> "Search Performance Test (500K Dataset, 1536 Dim)",
     description |-> "This case tests the search performance of a vector database with a medium 500K dataset (<b>OpenAI 500K vectors</b>, 1536 dimensions), at varying parallel levels.\nResults will show index building time, recall, and maximum QPS.",
     load_timeout |-> config("LOAD_TIMEOUT_1536D_500K"),
     optimize_timeout |-> Some(config("OPTIMIZE_TIMEOUT_1536D_500K"))]]

Performance1536D5M ==
  [base |-> "PerformanceCase",
   body |->
    [case_id |-> "Performance1536D5M",
     filter_rate |-> None,
     dataset |-> manager("OPENAI", 5000000),
     name |-> "Search Performance Test (5M Dataset, 1536 Dim)",
     description |-> "This case tests the search performance of a vector database with a medium 5M dataset (<b>OpenAI 5M vectors</b>, 1536 dimensions), at varying parallel levels.\nResults will show index building time, recall, and maximum QPS.",
     load_timeout |-> config("LOAD_TIMEOUT_1536D_5M"),
     optimize_timeout |-> Some(config("OPTIMIZE_TIMEOUT_1536D_5M"))]]

Performance1536D500K1P ==
  [base |-> "PerformanceCase",
   body |->
    [case_id |-> "Performance1536D500K1P",
     filter_rate |-> Some(1),
     dataset |-> manager("OPENAI", 500000),
     name |-> "Filtering Search Performance Test (500K Dataset, 1536 Dim, Filter 1%)",
     description |-> "This case tests the search performance of a vector database with a large dataset (<b>OpenAI 500K vectors</b>, 1536 dimensions) under a low filtering rate (<b>1% vectors</b>), at varying parallel levels.\nResults will show index building time, recall, and maximum QPS.",
     load_timeout |-> config("LOAD_TIMEOUT_1536D_500K"),
     optimize_timeout |-> Some(config("OPTIMIZE_TIMEOUT_1536D_500K"))]]

Performance1536D5M1P ==
  [base |-> "PerformanceCase",
   body |->
    [case_id |-> "Performance1536D5M1P",
     filter_rate |-> Some(1),
     dataset |-> manager("OPENAI", 5000000),
     name |-> "Filtering Search Performance Test (5M Dataset, 1536 Dim, Filter 1%)",
     description |-> "This case tests the search performance of a vector database with a large dataset (<b>OpenAI 5M vectors</b>, 1536 dimensions) under a low filtering rate (<b>1% vectors</b>), at varying parallel levels.\nResults will show index building time, recall, and maximum QPS.",
     load_timeout |-> config("LOAD_TIMEOUT_1536D_5M"),
     optimize_timeout |-> Some(config("OPTIMIZE_TIMEOUT_1536D_5M"))]]

Performance1536D500K99P ==
  [base |-> "PerformanceCase",
   body |->
    [case_id |-> "Performance1536D500K99P",
     filter_rate |-> Some(99),
     dataset |-> manager("OPENAI", 500000),
     name |-> "Filtering Search Performance Test (500K Dataset, 1536 Dim, Filter 99%)",
     description |-> "This case tests the search performance of a vector database with a medium dataset (<b>OpenAI 500K vectors</b>, 1536 dimensions) under a high filtering rate (<b>99% vectors</b>), at varying parallel levels.\nResults will show index building time, recall, and maximum QPS.",
     load_timeout |-> config("LOAD_TIMEOUT_1536D_500K"),
     optimize_timeout |-> Some(config("OPTIMIZE_TIMEOUT_1536D_500K"))]]

Performance1536D5M99P ==
  [base |-> "PerformanceCase",
   body |->
    [case_id |-> "Performance1536D5M99P",
     filter_rate |-> Some(99),
     dataset |-> manager("OPENAI", 5000000),
     name |-> "Filtering Search Performance Test (5M Dataset, 1536 Dim, Filter 99%)",
     description |-> "This case tests the search performance of a vector database with a medium dataset (<b>OpenAI 5M vectors</b>, 1536 dimensions) under a high filtering rate (<b>99% vectors</b>), at varying parallel levels.\nResults will show index building time, recall, and maximum QPS.",
     load_timeout |-> config("LOAD_TIMEOUT_1536D_5M"),
     optimize_timeout |-> Some(config("OPTIMIZE_TIMEOUT_1536D_5M"))]]

Performance960D100K90P ==
  [base |-> "PerformanceCase",
   body |->
    [case_id |-> "Performance960D100K90P",
     filter_rate |-> Some(90),
     dataset |-> manager("GIST", 100000),
     name |-> "Filtering Search Performance Test (100K Dataset, 960 Dim, Filter 90%)",
     description |-> "This case tests the search performance of a vector database with a small dataset (<b>Gist 100k vectors</b>, 960 dimensions) under a filtering rate (<b>90% vectors</b>), at varying parallel levels.\nResults will show index building time, recall, and maximum QPS.",
     load_timeout |-> config("LOAD_TIMEOUT_DEFAULT"),
     optimize_timeout |-> Some(config("OPTIMIZE_TIMEOUT_DEFAULT"))]]

Performance128D500K90P ==
  [base |-> "PerformanceCase",
   body |->
    [case_id |-> "Performance128D500K90P",
     filter_rate |-> Some(90),
     dataset |-> manager("SIFT", 500000),
     name |-> "Filtering Search Performance Test (500K Dataset, 128 Dim, Filter 90%)",
     description |-> "This case tests the search performance of a vector database with a small dataset (<b>Sift 500k vectors</b>, 128 dimensions) under a filtering rate (<b>90% vectors</b>), at varying parallel levels.\nResults will show index building time, recall, and maximum QPS.",
     load_timeout |-> config("LOAD_TIMEOUT_DEFAULT"),
     optimize_timeout |-> Some(config("OPTIMIZE_TIMEOUT_DEFAULT"))]]

Performance960D100K80P ==
  [base |-> "PerformanceCase",
   body |->
    [case_id |-> "Performance960D100K80P",
     filter_rate |-> Some(80),
     dataset |-> manager("GIST", 100000),
     name |-> "Filtering Search Performance Test (100K Dataset, 960 Dim, Filter 80%)",
     description |-> "This case tests the search performance of a vector database with a small dataset (<b>Gist 100k vectors</b>, 960 dimensions) under a filtering rate (<b>80% vectors</b>), at varying parallel levels.\nResults will show index building time, recall, and maximum QPS.",
     load_timeout |-> config("LOAD_TIMEOUT_DEFAULT"),
     optimize_timeout |-> Some(config("OPTIMIZE_TIMEOUT_DEFAULT"))]]

Performance128D500K80P ==
  [base |-> "PerformanceCase",
   body |->
    [case_id |-> "Performance128D500K80P",
     filter_rate |-> Some(80),
     dataset |-> manager("SIFT", 500000),
     name |-> "Filtering Search Performance Test (500K Dataset, 128 Dim, Filter 80%)",
     description |-> "This case tests the search performance of a vector database with a small dataset (<b>Sift 500k vectors</b>, 128 dimensions) under a filtering rate (<b>80% vectors</b>), at varying parallel levels.\nResults will show index building time, recall, and maximum QPS.",
     load_timeout |-> config("LOAD_TIMEOUT_DEFAULT"),
     optimize_timeout |-> Some(config("OPTIMIZE_TIMEOUT_DEFAULT"))]]

Performance960D100K70P ==
  [base |-> "PerformanceCase",
   body |->
    [case_id |-> "Performance960D100K70P",
     filter_rate |-> Some(70),
     dataset |-> manager("GIST", 100000),
     name |-> "Filtering Search Performance Test (100K Dataset, 960 Dim, Filter 70%)",
     description |-> "This case tests the search performance of a vector database with a small dataset (<b>Gist 100k vectors</b>, 960 dimensions) under a filtering rate (<b>70% vectors</b>), at varying parallel levels.\nResults will show index building time, recall, and maximum QPS.",
     load_timeout |-> config("LOAD_TIMEOUT_DEFAULT"),
     optimize_timeout |-> Some(config("OPTIMIZE_TIMEOUT_DEFAULT"))]]

Performance128D500K70P ==
  [base |-> "PerformanceCase",
   body |->
    [case_id |-> "Performance128D500K70P",
     filter_rate |-> Some(70),
     dataset |-> manager("SIFT", 500000),
     name |-> "Filtering Search Performance Test (500K Dataset, 128 Dim, Filter 70%)",
     description |-> "This case tests the search performance of a vector database with a small dataset (<b>Sift 500k vectors</b>, 128 dimensions) under a filtering rate (<b>70% vectors</b>), at varying parallel levels.\nResults will show index building time, recall, and maximum QPS.",
     load_timeout |-> config("LOAD_TIMEOUT_DEFAULT"),
     optimize_timeout |-> Some(config("OPTIMIZE_TIMEOUT_DEFAULT"))]]

Performance960D100K60P ==
  [base |-> "PerformanceCase",
   body |->
    [case_id |-> "Performance960D100K60P",
     filter_rate |-> Some(60),
     dataset |-> manager("GIST", 100000),
     name |-> "Filtering Search Performance Test (100K Dataset, 960 Dim, Filter 60%)",
     description |-> "This case tests the search performance of a vector database with a small dataset (<b>Gist 100k vectors</b>, 960 dimensions) under a filtering rate (<b>60% vectors</b>), at varying parallel levels.\nResults will show index building time, recall, and maximum QPS.",
     load_timeout |-> config("LOAD_TIMEOUT_DEFAULT"),
     optimize_timeout |-> Some(config("OPTIMIZE_TIMEOUT_DEFAULT"))]]

Performance128D500K60P ==
  [base |-> "PerformanceCase",
   body |->
    [case_id |-> "Performance128D500K60P",
     filter_rate |-> Some(60),
     dataset |-> manager("SIFT", 500000),
     name |-> "Filtering Search Performance Test (500K Dataset, 128 Dim, Filter 60%)",
     description |-> "This case tests the search performance of a vector database with a small dataset (<b>Sift 500k vectors</b>, 128 dimensions) under a filtering rate (<b>60% vectors</b>), at varying parallel levels.\nResults will show index building time, recall, and maximum QPS.",
     load_timeout |-> config("LOAD_TIMEOUT_DEFAULT"),
     optimize_timeout |-> Some(config("OPTIMIZE_TIMEOUT_DEFAULT"))]]

Performance960D100K50P ==
  [base |-> "PerformanceCase",
   body |->
    [case_id |-> "Performance960D100K50P",
     filter_rate |-> Some(50),
     dataset |-> manager("GIST", 100000),
     name |-> "Filtering Search Performance Test (100K Dataset, 960 Dim, Filter 50%)",
     description |-> "This case tests the search performance of a vector database with a small dataset (<b>Gist 100k vectors</b>, 960 dimensions) under a filtering rate (<b>50% vectors</b>), at varying parallel levels.\nResults will show index building time, recall, and maximum QPS.",
     load_timeout |-> config("LOAD_TIMEOUT_DEFAULT"),
     optimize_timeout |-> Some(config("OPTIMIZE_TIMEOUT_DEFAULT"))]]

Performance128D500K50P ==
  [base |-> "PerformanceCase",
   body |->
    [case_id |-> "Performance128D500K50P",
     filter_rate |-> Some(50),
     dataset |-> manager("SIFT", 500000),
     name |-> "Filtering Search Performance Test (500K Dataset, 128 Dim, Filter 50%)",
     description |-> "This case tests the search performance of a vector database with a small dataset (<b>Sift 500k vectors</b>, 128 dimensions) under a filtering rate (<b>50% vectors</b>), at varying parallel levels.\nResults will show index building time, recall, and maximum QPS.",
     load_timeout |-> config("LOAD_TIMEOUT_DEFAULT"),
     optimize_timeout |-> Some(config("OPTIMIZE_TIMEOUT_DEFAULT"))]]

Performance960D100K40P ==
  [base |-> "PerformanceCase",
   body |->
    [case_id |-> "Performance960D100K40P",
     filter_rate |-> Some(40),
     dataset |-> manager("GIST", 100000),
     name |-> "Filtering Search Performance Test (100K Dataset, 960 Dim, Filter 40%)",
     description |-> "This case tests the search performance of a vector database with a small dataset (<b>Gist 100k vectors</b>, 960 dimensions) under a filtering rate (<b>40% vectors</b>), at varying parallel levels.\nResults will show index building time, recall, and maximum QPS.",
     load_timeout |-> config("LOAD_TIMEOUT_DEFAULT"),
     optimize_timeout |-> Some(config("OPTIMIZE_TIMEOUT_DEFAULT"))]]

Performance128D500K40P ==
  [base |-> "PerformanceCase",
   body |->
    [case_id |-> "Performance128D500K40P",
     filter_rate |-> Some(40),
     dataset |-> manager("SIFT", 500000),
     name |-> "Filtering Search Performance Test (500K Dataset, 128 Dim, Filter 40%)",
     description |-> "This case tests the search performance of a vector database with a small dataset (<b>Sift 500k vectors</b>, 128 dimensions) under a filtering rate (<b>40% vectors</b>), at varying parallel levels.\nResults will show index building time, recall, and maximum QPS.",
     load_timeout |-> config("LOAD_TIMEOUT_DEFAULT"),
     optimize_timeout |-> Some(config("OPTIMIZE_TIMEOUT_DEFAULT"))]]

Performance960D100K30P ==
  [base |-> "PerformanceCase",
   body |->
    [case_id |-> "Performance960D100K30P",
     filter_rate |-> Some(30),
     dataset |-> manager("GIST", 100000),
     name |-> "Filtering Search Performance Test (100K Dataset, 960 Dim, Filter 30%)",
     description |-> "This case tests the search performance of a vector database with a small dataset (<b>Gist 100k vectors</b>, 960 dimensions) under a filtering rate (<b>30% vectors</b>), at varying parallel levels.\nResults will show index building time, recall, and maximum QPS.",
     load_timeout |-> config("LOAD_TIMEOUT_DEFAULT"),
     optimize_timeout |-> Some(config("OPTIMIZE_TIMEOUT_DEFAULT"))]]

Performance128D500K30P ==
  [base |-> "PerformanceCase",
   body |->
    [case_id |-> "Performance128D500K30P",
     filter_rate |-> Some(30),
     dataset |-> manager("SIFT", 500000),
     name |-> "Filtering Search Performance Test (500K Dataset, 128 Dim, Filter 30%)",
     description |-> "This case tests the search performance of a vector database with a small dataset (<b>Sift 500k vectors</b>, 128 dimensions) under a filtering rate (<b>30% vectors</b>), at varying parallel levels.\nResults will show index building time, recall, and maximum QPS.",
     load_timeout |-> config("LOAD_TIMEOUT_DEFAULT"),
     optimize_timeout |-> Some(config("OPTIMIZE_TIMEOUT_DEFAULT"))]]

Performance960D100K20P ==
  [base |-> "PerformanceCase",
   body |->
    [case_id |-> "Performance960D100K20P",
     filter_rate |-> Some(20),
     dataset |-> manager("GIST", 100000),
     name |-> "Filtering Search Performance Test (100K Dataset, 960 Dim, Filter 20%)",
     description |-> "This case tests the search performance of a vector database with a small dataset (<b>Gist 100k vectors</b>, 960 dimensions) under a filtering rate (<b>20% vectors</b>), at varying parallel levels.\nResults will show index building time, recall, and maximum QPS.",
     load_timeout |-> config("LOAD_TIMEOUT_DEFAULT"),
     optimize_timeout |-> Some(config("OPTIMIZE_TIMEOUT_DEFAULT"))]]

Performance128D500K20P ==
  [base |-> "PerformanceCase",
   body |->
    [case_id |-> "Performance128D500K20P",
     filter_rate |-> Some(20),
     dataset |-> manager("SIFT", 500000),
     name |-> "Filtering Search Performance Test (500K Dataset, 128 Dim, Filter 20%)",
     description |-> "This case tests the search performance of a vector database with a small dataset (<b>Sift 500k vectors</b>, 128 dimensions) under a filtering rate (<b>20% vectors</b>), at varying parallel levels.\nResults will show index building time, recall, and maximum QPS.",
     load_timeout |-> config("LOAD_TIMEOUT_DEFAULT"),
     optimize_timeout |-> Some(config("OPTIMIZE_TIMEOUT_DEFAULT"))]]

Performance960D100K10P ==
  [base |-> "PerformanceCase",
   body |->
    [case_id |-> "Performance960D100K10P",
     filter_rate |-> Some(10),
     dataset |-> manager("GIST", 100000),
     name |-> "Filtering Search Performance Test (100K Dataset, 960 Dim, Filter 10%)",
     description |-> "This case tests the search performance of a vector database with a small dataset (<b>Gist 100k vectors</b>, 960 dimensions) under a filtering rate (<b>10% vectors</b>), at varying parallel levels.\nResults will show index building time, recall, and maximum QPS.",
     load_timeout |-> config("LOAD_TIMEOUT_DEFAULT"),
     optimize_timeout |-> Some(config("OPTIMIZE_TIMEOUT_DEFAULT"))]]

Performance128D500K10P ==
  [base |-> "PerformanceCase",
   body |->
    [case_id |-> "Performance128D500K10P",
     filter_rate |-> Some(10),
     dataset |-> manager("SIFT", 500000),
     name |-> "Filtering Search Performance Test (500K Dataset, 128 Dim, Filter 10%)",
     description |-> "This case tests the search performance of a vector database with a small dataset (<b>Sift 500k vectors</b>, 128 dimensions) under a filtering rate (<b>10% vectors</b>), at varying parallel levels.\nResults will show index building time, recall, and maximum QPS.",
     load_timeout |-> config("LOAD_TIMEOUT_DEFAULT"),
     optimize_timeout |-> Some(config("OPTIMIZE_TIMEOUT_DEFAULT"))]]

\* The class statement that defines each class name of the module.
ClassDef(cls) ==
  CASE cls = "CapacityCase" -> CapacityCase
    [] cls = "PerformanceCase" -> PerformanceCase
    [] cls = "CapacityDim960" -> CapacityDim960
    [] cls = "CapacityDim128" -> CapacityDim128
    [] cls = "Performance768D10M" -> Performance768D10M
    [] cls = "Performance768D1M" -> Performance768D1M
    [] cls = "Performance768D10M1P" -> Performance768D10M1P
    [] cls = "Performance768D1M1P" -> Performance768D1M1P
    [] cls = "Performance768D10M99P" -> Performance768D10M99P
    [] cls = "Performance768D1M99P" -> Performance768D1M99P
    [] cls = "Performance768D100M" -> Performance768D100M
    [] cls = "Performance1536D500K" -> Performance1536D500K
    [] cls = "Performance1536D5M" -> Performance1536D5M
    [] cls = "Performance1536D500K1P" -> Performance1536D500K1P
    [] cls = "Performance1536D5M1P" -> Performance1536D5M1P
    [] cls = "Performance1536D500K99P" -> Performance1536D500K99P
    [] cls = "Performance1536D5M99P" -> Performance1536D5M99P
    [] cls = "Performance960D100K90P" -> Performance960D100K90P
    [] cls = "Performance128D500K90P" -> Performance128D500K90P
    [] cls = "Performance960D100K80P" -> Performance960D100K80P
    [] cls = "Performance128D500K80P" -> Performance128D500K80P
    [] cls = "Performance960D100K70P" -> Performance960D100K70P
    [] cls = "Performance128D500K70P" -> Performance128D500K70P
    [] cls = "Performance960D100K60P" -> Performance960D100K60P
    [] cls = "Performance128D500K60P" -> Performance128D500K60P
    [] cls = "Performance960D100K50P" -> Performance960D100K50P
    [] cls = "Performance128D500K50P" -> Performance128D500K50P
    [] cls = "Performance960D100K40P" -> Performance960D100K40P
    [] cls = "Performance128D500K40P" -> Performance128D500K40P
    [] cls = "Performance960D100K30P" -> Performance960D100K30P
    [] cls = "Performance128D500K30P" -> Performance128D500K30P
    [] cls = "Performance960D100K20P" -> Performance960D100K20P
    [] cls = "Performance128D500K20P" -> Performance128D500K20P
    [] cls = "Performance960D100K10P" -> Performance960D100K10P
    [] cls = "Performance128D500K10P" -> Performance128D500K10P
    [] cls = "Case" -> [base |-> "BaseModel", body |-> <<>>]

ConcreteCases ==
  {"CapacityDim960",
   "CapacityDim128",
   "Performance768D10M",
   "Performance768D1M",
   "Performance768D10M1P",
   "Performance768D1M1P",
   "Performance768D10M99P",
   "Performance768D1M99P",
   "Performance768D100M",
   "Performance1536D500K",
   "Performance1536D5M",
   "Performance1536D500K1P",
   "Performance1536D5M1P",
   "Performance1536D500K99P",
   "Performance1536D5M99P",
   "Performance960D100K90P",
   "Performance128D500K90P",
   "Performance960D100K80P",
   "Performance128D500K80P",
   "Performance960D100K70P",
   "Performance128D500K70P",
   "Performance960D100K60P",
   "Performance128D500K60P",
   "Performance960D100K50P",
   "Performance128D500K50P",
   "Performance960D100K40P",
   "Performance128D500K40P",
   "Performance960D100K30P",
   "Performance128D500K30P",
   "Performance960D100K20P",
   "Performance128D500K20P",
   "Performance960D100K10P",
   "Performance128D500K10P"}

\* type2case with the constructor of the next line pasted on Performance768D10M.
type2case_pasted ==
  <<
    <<"CapacityDim960", "CapacityDim960">>,
    <<"CapacityDim128", "CapacityDim128">>,
    <<"Performance768D100M", "Performance768D100M">>,
    <<"Performance768D10M", "Performance768D1M">>,
    <<"Performance768D1M", "Performance768D1M">>,
    <<"Performance768D10M1P", "Performance768D10M1P">>,
    <<"Performance768D1M1P", "Performance768D1M1P">>,
    <<"Performance768D10M99P", "Performance768D10M99P">>,
    <<"Performance768D1M99P", "Performance768D1M99P">>,
    <<"Performance1536D500K", "Performance1536D500K">>,
    <<"Performance1536D5M", "Performance1536D5M">>,
    <<"Performance1536D500K1P", "Performance1536D500K1P">>,
    <<"Performance1536D5M1P", "Performance1536D5M1P">>,
    <<"Performance1536D500K99P", "Performance1536D500K99P">>,
    <<"Performance1536D5M99P", "Performance1536D5M99P">>,
    <<"Performance960D100K90P", "Performance960D100K90P">>,
    <<"Performance128D500K90P", "Performance128D500K90P">>,
    <<"Performance960D100K80P", "Performance960D100K80P">>,
    <<"Performance128D500K80P", "Performance128D500K80P">>,
    <<"Performance960D100K70P", "Performance960D100K70P">>,
    <<"Performance128D500K70P", "Performance128D500K70P">>,
    <<"Performance960D100K60P", "Performance960D100K60P">>,
    <<"Performance128D500K60P", "Performance128D500K60P">>,
    <<"Performance960D100K50P", "Performance960D100K50P">>,
    <<"Performance128D500K50P", "Performance128D500K50P">>,
    <<"Performance960D100K40P", "Performance960D100K40P">>,
    <<"Performance128D500K40P", "Performance128D500K40P">>,
    <<"Performance960D100K30P", "Performance960D100K30P">>,
    <<"Performance128D500K30P", "Performance128D500K30P">>,
    <<"Performance960D100K20P", "Performance960D100K20P">>,
    <<"Performance128D500K20P", "Performance128D500K20P">>,
    <<"Performance960D100K10P", "Performance960D100K10P">>,
    <<"Performance128D500K10P", "Performance128D500K10P">>
  >>

\* type2case without its last pair.
type2case_short ==
  <<
    <<"CapacityDim960", "CapacityDim960">>,
    <<"CapacityDim128", "CapacityDim128">>,
    <<"Performance768D100M", "Performance768D100M">>,
    <<"Performance768D10M", "Performance768D10M">>,
    <<"Performance768D1M", "Performance768D1M">>,
    <<"Performance768D10M1P", "Performance768D10M1P">>,
    <<"Performance768D1M1P", "Performance768D1M1P">>,
    <<"Performance768D10M99P", "Performance768D10M99P">>,
    <<"Performance768D1M99P", "Performance768D1M99P">>,
    <<"Performance1536D500K", "Performance1536D500K">>,
    <<"Performance1536D5M", "Performance1536D5M">>,
    <<"Performance1536D500K1P", "Performance1536D500K1P">>,
    <<"Performance1536D5M1P", "Performance1536D5M1P">>,
    <<"Performance1536D500K99P", "Performance1536D500K99P">>,
    <<"Performance1536D5M99P", "Performance1536D5M99P">>,
    <<"Performance960D100K90P", "Performance960D100K90P">>,
    <<"Performance128D500K90P", "Performance128D500K90P">>,
    <<"Performance960D100K80P", "Performance960D100K80P">>,
    <<"Performance128D500K80P", "Performance128D500K80P">>,
    <<"Performance960D100K70P", "Performance960D100K70P">>,
    <<"Performance128D500K70P", "Performance128D500K70P">>,
    <<"Performance960D100K60P", "Performance960D100K60P">>,
    <<"Performance128D500K60P", "Performance128D500K60P">>,
    <<"Performance960D100K50P", "Performance960D100K50P">>,
    <<"Performance128D500K50P", "Performance128D500K50P">>,
    <<"Performance960D100K40P", "Performance960D100K40P">>,
    <<"Performance128D500K40P", "Performance128D500K40P">>,
    <<"Performance960D100K30P", "Performance960D100K30P">>,
    <<"Performance128D500K30P", "Performance128D500K30P">>,
    <<"Performance960D100K20P", "Performance960D100K20P">>,
    <<"Performance128D500K20P", "Performance128D500K20P">>,
    <<"Performance960D100K10P", "Performance960D100K10P">>
  >>

\* The dict display type2case: its key/value pairs, in order.
type2case ==
  <<
    <<"CapacityDim960", "CapacityDim960">>,
    <<"CapacityDim128", "CapacityDim128">>,
    <<"Performance768D100M", "Performance768D100M">>,
    <<"Performance768D10M", "Performance768D10M">>,
    <<"Performance768D1M", "Performance768D1M">>,
    <<"Performance768D10M1P", "Performance768D10M1P">>,
    <<"Performance768D1M1P", "Performance768D1M1P">>,
    <<"Performance768D10M99P", "Performance768D10M99P">>,
    <<"Performance768D1M99P", "Performance768D1M99P">>,
    <<"Performance1536D500K", "Performance1536D500K">>,
    <<"Performance1536D5M", "Performance1536D5M">>,
    <<"Performance1536D500K1P", "Performance1536D500K1P">>,
    <<"Performance1536D5M1P", "Performance1536D5M1P">>,
    <<"Performance1536D500K99P", "Performance1536D500K99P">>,
    <<"Performance1536D5M99P", "Performance1536D5M99P">>,
    <<"Performance960D100K90P", "Performance960D100K90P">>,
    <<"Performance128D500K90P", "Performance128D500K90P">>,
    <<"Performance960D100K80P", "Performance960D100K80P">>,
    <<"Performance128D500K80P", "Performance128D500K80P">>,
    <<"Performance960D100K70P", "Performance960D100K70P">>,
    <<"Performance128D500K70P", "Performance128D500K70P">>,
    <<"Performance960D100K60P", "Performance960D100K60P">>,
    <<"Performance128D500K60P", "Performance128D500K60P">>,
    <<"Performance960D100K50P", "Performance960D100K50P">>,
    <<"Performance128D500K50P", "Performance128D500K50P">>,
    <<"Performance960D100K40P", "Performance960D100K40P">>,
    <<"Performance128D500K40P", "Performance128D500K40P">>,
    <<"Performance960D100K30P", "Performance960D100K30P">>,
    <<"Performance128D500K30P", "Performance128D500K30P">>,
    <<"Performance960D100K20P", "Performance960D100K20P">>,
    <<"Performance128D500K20P", "Performance128D500K20P">>,
    <<"Performance960D100K10P", "Performance960D100K10P">>,
    <<"Performance128D500K10P", "Performance128D500K10P">>
  >>

(***************************************************************************)
(* Python and pydantic semantics used by the module.                       *)
(***************************************************************************)

\* d.get(key, "Case"): a default constructor in place of None.
dict_get_default(d, key) ==
  LET hits == { i \in DOMAIN d : d[i][1] = key }
  IN  IF hits = {} THEN Some("Case")
      ELSE Some(d[CHOOSE i \in hits : \A j \in hits : j <= i][2])

\* d.get(key) on a dict display: the value of the last pair with that key,
\* None when no pair has it.
dict_get(d, key) ==
  LET hits == { i \in DOMAIN d : d[i][1] = key }
  IN  IF hits = {} THEN None
      ELSE Some(d[CHOOSE i \in hits : \A j \in hits : j <= i][2])

\* The method resolution order of a case class, up to Case.
RECURSIVE mro(_)
mro(cls) ==
  IF cls = "Case" THEN <<"Case">> ELSE <<cls>> \o mro(ClassDef(cls).base)

HasDefault(cls, f) ==
  \E i \in DOMAIN mro(cls) : f \in DOMAIN ClassDef(mro(cls)[i]).body

\* Default with the least derived assignment winning: the family's default
\* replaces the one the scenario declares.
Default_base_first(cls, f) ==
  LET m == mro(cls)
      i == CHOOSE i \in DOMAIN m :
             /\ f \in DOMAIN ClassDef(m[i]).body
             /\ \A j \in (i+1)..Len(m) : f \notin DOMAIN ClassDef(m[j]).body
  IN  ClassDef(m[i]).body[f]

\* The default of field f in class cls: the assignment of the first class of
\* the MRO whose body assigns f (the most derived one wins).
Default(cls, f) ==
  LET m == mro(cls)
      i == CHOOSE i \in DOMAIN m :
             /\ f \in DOMAIN ClassDef(m[i]).body
             /\ \A j \in 1..(i-1) : f \notin DOMAIN ClassDef(m[j]).body
  IN  ClassDef(m[i]).body[f]

\* Instantiate with the dataset of a held descriptor's size as it is now.
Instantiate_live(cls, kwargs) ==
  LET missing == { f \in CaseFields : f \notin DOMAIN kwargs /\ ~HasDefault(cls, f) }
      given(f) == IF f \in DOMAIN kwargs THEN kwargs[f] ELSE Default(cls, f)
  IN  IF missing # {}
      THEN [status |-> "raise", exc |-> "ValidationError", value |-> None]
      ELSE [status |-> "return", exc |-> "",
            value |-> [f \in CaseFields |->
                         IF f = "dataset" /\ held # None
                         THEN manager(given(f).name, data_size)
                         ELSE given(f)]]

\* cls(**kwargs): every field of Case is taken from the keyword arguments,
\* else from the class default; a field with neither fails validation.
Instantiate(cls, kwargs) ==
  LET missing == { f \in CaseFields : f \notin DOMAIN kwargs /\ ~HasDefault(cls, f) }
  IN  IF missing # {}
      THEN [status |-> "raise", exc |-> "ValidationError", value |-> None]
      ELSE [status |-> "return", exc |-> "",
            value |-> [f \in CaseFields |->
                         IF f \in DOMAIN kwargs THEN kwargs[f] ELSE Default(cls, f)]]

\* The double nearest to p/100 is (p * 2^(52+k) + d) / (100 * 2^(52+k)) with
\* p/100 in [2^-k, 2^-(k-1)): d is the representation error of the literal in
\* units of 1/(100 * 2^(52+k)); d = 0 when p/100 is a double.
Float64(p) ==
  CASE p = 0   -> [d |-> 0,   k |-> 0]
    [] p = 1   -> [d |-> 12,  k |-> 7]
    [] p = 10  -> [d |-> 40,  k |-> 4]
    [] p = 20  -> [d |-> 40,  k |-> 3]
    [] p = 30  -> [d |-> -20, k |-> 2]
    [] p = 40  -> [d |-> 40,  k |-> 2]
    [] p = 50  -> [d |-> 0,   k |-> 1]
    [] p = 60  -> [d |-> -20, k |-> 1]
    [] p = 70  -> [d |-> -40, k |-> 1]
    [] p = 80  -> [d |-> 40,  k |-> 1]
    [] p = 90  -> [d |-> 20,  k |-> 1]
    [] p = 99  -> [d |-> -8,  k |-> 1]
    [] p = 100 -> [d |-> 0,   k |-> 0]
    [] p = 150 -> [d |-> 0,   k |-> 0]

RECURSIVE Log2Floor(_)
Log2Floor(n) == IF n <= 1 THEN 0 ELSE 1 + Log2Floor(n \div 2)

RECURSIVE Pow2(_)
Pow2(n) == IF n <= 0 THEN 1 ELSE 2 * Pow2(n - 1)

Abs(x) == IF x < 0 THEN -x ELSE x

\* int(rate * size): the product truncated instead of rounded.
round_product_truncated(p, size) == (p * size) \div 100

\* round(rate * size) for rate = Float64(p) and an int size >= 0.
\* The double product is the exact p*size/100 moved by the literal's error and
\* rounded to 53 bits; round() then rounds the double to the nearest int, a
\* half to the even int.  Off a half the error (below 2^-26 for the sizes
\* used) cannot change the nearest int.  On a half h = q + 1/2 the product is
\* h itself when the error is within half a unit in the last place of h, and
\* the neighbouring double above or below h otherwise.
round_product(p, size) ==
  LET num == p * size
      q   == num \div 100
      rem == num % 100
      fl  == Float64(p)
      \* exponent of h, and the unit below h = 1/2 is half the unit above it
      e   == Log2Floor(2 * q + 1) - 1
      err == 2 * size * Abs(fl.d) * (IF fl.d < 0 /\ q = 0 THEN 2 ELSE 1)
      half_even == IF q % 2 = 0 THEN q ELSE q + 1
  IN  IF rem < 50 THEN q
      ELSE IF rem > 50 THEN q + 1
      ELSE IF fl.d = 0 THEN half_even
      ELSE IF err <= 100 * Pow2(fl.k + e) THEN half_even
      ELSE IF fl.d > 0 THEN q + 1 ELSE q

\* Sizes the dataset of the held descriptor is resized to, and the filter
\* rates a caller gives a descriptor of its own.
SizeStep == 45

MaxSlices == 1

Sizes == { SizeStep * j : j \in 0..MaxSlices }

CustomRates == {0, 100, 150}

Returned(op, arg, value) ==
  [op |-> op, arg |-> arg, status |-> "return", exc |-> "", value |-> value]

Raised(op, arg, exc) ==
  [op |-> op, arg |-> arg, status |-> "raise", exc |-> exc, value |-> None]

Init ==
  /\ held = None
  /\ data_size = 0
  /\ prev = None
  /\ outcome = Returned("import", "", None)

\* The size the dataset was requested with when the class was defined.
dataset_size_at_definition(self) == self.dataset.size

\* self.dataset.data.size, read when it is evaluated
dataset_data_size(self) == data_size

\* filters testing the truth of filter_rate instead of "is not None": a ratio
\* of 0.0 gives no predicate.
filters_truthy(self) ==
  IF self.filter_rate # None /\ Get(self.filter_rate) # 0
  THEN LET ID == round_product(Get(self.filter_rate), dataset_data_size(self))
       IN  Some([metadata |-> ">=" \o ToString(ID), id |-> ID])
  ELSE None

\* Case.filters (a property)
filters(self) ==
  IF self.filter_rate # None
  THEN LET ID == round_product(Get(self.filter_rate), dataset_data_size(self))
       IN  Some([metadata |-> ">=" \o ToString(ID), id |-> ID])
  ELSE None

\* CaseType.case_cls (a property)
case_cls(self) == dict_get(type2case, self)

\* CaseType.case_description (a property)
case_description(self) ==
  LET c == case_cls(self)
  IN  IF c # None
      THEN LET made == Instantiate(Get(c), <<>>)
           IN  IF made.status = "return"
               THEN Returned("case_description", self, made.value.description)
               ELSE Raised("case_description", self, made.exc)
      ELSE Raised("case_description", self, "ValueError: Case unsupported")

\* case_name reading the description field.
case_name_described(self) ==
  [case_description(self) EXCEPT !.op = "case_name"]

\* CaseType.case_name (a property)
case_name(self) ==
  LET c == case_cls(self)
  IN  IF c # None
      THEN LET made == Instantiate(Get(c), <<>>)
           IN  IF made.status = "return"
               THEN Returned("case_name", self, made.value.name)
               ELSE Raised("case_name", self, made.exc)
      ELSE Raised("case_name", self, "ValueError: Case unsupported")

\* member.case_cls(): the registered class called with no arguments; calling
\* None raises TypeError.
resolve(self) ==
  LET c == case_cls(self)
  IN  IF c = None
      THEN Raised("resolve", self, "TypeError: 'NoneType' object is not callable")
      ELSE LET made == Instantiate(Get(c), <<>>)
           IN  IF made.status = "return"
               THEN Returned("resolve", self, made.value)
               ELSE Raised("resolve", self, made.exc)

\* The three properties and the call, member by member (none reads the state).
case_cls_of == [id \in CaseTypeSet |-> Returned("case_cls", id, case_cls(id))]

case_name_of == [id \in CaseTypeSet |-> case_name(id)]

case_description_of == [id \in CaseTypeSet |-> case_description(id)]

resolve_of == [id \in CaseTypeSet |-> resolve(id)]

(***************************************************************************)
(* Steps.                                                                  *)
(***************************************************************************)

\* A caller reads member.case_cls.
CaseCls(id) ==
  /\ outcome' = case_cls_of[id]
  /\ UNCHANGED <<held, data_size, prev>>

\* A caller reads member.case_name.
CaseName(id) ==
  /\ outcome' = case_name_of[id]
  /\ UNCHANGED <<held, data_size, prev>>

\* A caller reads member.case_description.
CaseDescription(id) ==
  /\ outcome' = case_description_of[id]
  /\ UNCHANGED <<held, data_size, prev>>

\* A caller evaluates member.case_cls() and, with keep, holds the descriptor
\* from now on; its dataset then has the size it was requested with.
Resolve(id, keep) ==
  /\ outcome' = resolve_of[id]
  /\ IF keep /\ outcome'.status = "return"
     THEN /\ held' = Some(outcome'.value)
          /\ data_size' = outcome'.value.dataset.size
          /\ prev' = None
     ELSE UNCHANGED <<held, data_size, prev>>

\* A caller builds a descriptor of its own for CaseType.Custom from one of
\* the two families and holds it.
NewCustom(family, rate) ==
  LET made == Instantiate(family,
                [case_id |-> "Custom", name |-> "Custom", description |-> "",
                 dataset |-> manager("Custom", SizeStep),
                 filter_rate |-> Some(rate)])
  IN  IF made.status = "return"
      THEN /\ outcome' = Returned("custom", family, made.value)
           /\ held' = Some(made.value)
           /\ data_size' = made.value.dataset.size
           /\ prev' = None
      ELSE /\ outcome' = Raised("custom", family, made.exc)
           /\ UNCHANGED <<held, data_size, prev>>

\* filters writing the complementary ratio back into the descriptor.
Filters_storing ==
  /\ held # None
  /\ outcome' = Returned("filters", Get(held).case_id, filters(Get(held)))
  /\ prev' = Some([size |-> data_size, value |-> outcome'.value,
                   changed |-> prev # None /\ Get(prev).size # data_size])
  /\ held' = IF Get(held).filter_rate # None
                 /\ Get(Get(held).filter_rate) \in 0..100
              THEN Some([Get(held) EXCEPT
                           !.filter_rate = Some(100 - Get(Get(held).filter_rate))])
              ELSE held
  /\ UNCHANGED data_size

\* A caller reads held.filters.
Filters ==
  /\ held # None
  /\ outcome' = Returned("filters", Get(held).case_id, filters(Get(held)))
  /\ prev' = Some([size |-> data_size, value |-> outcome'.value,
                   changed |-> prev # None /\ Get(prev).size # data_size])
  /\ UNCHANGED <<held, data_size>>

\* The dataset of the held descriptor is loaded at another size.
DatasetResize(n) ==
  /\ held # None
  /\ n # data_size
  /\ data_size' = n
  /\ outcome' = Returned("resize", Get(held).dataset.name, None)
  /\ UNCHANGED <<held, prev>>

\* The registry and the construction of descriptors.
Next ==
  \/ \E id \in CaseTypeSet : CaseCls(id)
  \/ \E id \in CaseTypeSet : CaseName(id)
  \/ \E id \in CaseTypeSet : CaseDescription(id)
  \/ \E id \in CaseTypeSet, keep \in BOOLEAN : Resolve(id, keep)
  \/ \E family \in {"CapacityCase", "PerformanceCase"}, rate \in CustomRates :
       NewCustom(family, rate)

Spec == Init /\ [][Next]_vars

\* The use of a descriptor: its filters are requested while its dataset is
\* resized, and descriptors are constructed in between.
NextFilters ==
  \/ \E id \in CaseTypeSet, keep \in BOOLEAN : Resolve(id, keep)
  \/ \E family \in {"CapacityCase", "PerformanceCase"}, rate \in CustomRates :
       NewCustom(family, rate)
  \/ Filters
  \/ \E n \in Sizes : DatasetResize(n)

SpecFilters == Init /\ [][NextFilters]_vars

\* The readers of a descriptor: every operation of the module on an
\* identifier or on the held descriptor, in any order.
NextReaders ==
  \/ \E id \in CaseTypeSet : CaseCls(id)
  \/ \E id \in CaseTypeSet : CaseName(id)
  \/ \E id \in CaseTypeSet : CaseDescription(id)
  \/ \E id \in CaseTypeSet, keep \in BOOLEAN : Resolve(id, keep)
  \/ \E family \in {"CapacityCase", "PerformanceCase"}, rate \in CustomRates :
       NewCustom(family, rate)
  \/ Filters

SpecReaders == Init /\ [][NextReaders]_vars

(***************************************************************************)
(* Properties.                                                             *)
(***************************************************************************)

Registered(id) == \E i \in DOMAIN type2case : type2case[i][1] = id

\* C1: for every identifier other than Custom, member.case_cls() succeeds
\* and returns a descriptor whose case_id is the identifier resolved.
C1_ResolveRoundTrip ==
  (outcome.op = "resolve" /\ outcome.arg # "Custom") =>
     /\ outcome.status = "return"
     /\ outcome.value.case_id = outcome.arg

\* C1 witness: the last declared case has been resolved to its descriptor.
C1_Witness ==
  /\ outcome.op = "resolve"
  /\ outcome.arg = "Performance128D500K10P"
  /\ outcome.status = "return"
  /\ outcome.value.case_id = "Performance128D500K10P"

\* C2 as stated: case_cls of an identifier without a registered constructor
\* fails with UnsupportedCaseError; it returns neither a constructor nor None.
C2_UnsupportedRaises ==
  (outcome.op = "case_cls" /\ ~Registered(outcome.arg)) =>
     /\ outcome.status = "raise"
     /\ outcome.exc = "UnsupportedCaseError"

\* C2 amended: case_cls of an identifier without a registered constructor
\* (Custom) raises nothing and returns None, never a constructor.
C2_UnsupportedReturnsNone ==
  (outcome.op = "case_cls" /\ ~Registered(outcome.arg)) =>
     /\ outcome.status = "return"
     /\ outcome.value = None

\* C2 witness: case_cls has been read on Custom.
C2_Witness ==
  /\ outcome.op = "case_cls"
  /\ outcome.arg = "Custom"
  /\ ~Registered("Custom")
  /\ outcome.status = "return"

\* The ordinal positions of a dataset of N records.
Ordinals(N) == 0..(N - 1)

\* T is an integer nearest to p/100 * N.
Nearest(T, p, N) == 2 * Abs(100 * T - p * N) <= 100

\* C3: for a descriptor with ratio r in (0,1] and record count N, filters
\* returns the threshold round(r * N) (an integer nearest to r * N, the even
\* one on a half when r is a double), the threshold lies in 0..N, exactly
\* N - round(r * N) of the N ordinals satisfy "ordinal >= threshold", and
\* r = 0.01 and r = 0.99 against N = 1,000,000 give 10,000 and 990,000.
C3_Threshold ==
  (/\ outcome.op = "filters"
   /\ Get(held).filter_rate # None
   /\ Get(Get(held).filter_rate) \in 1..100) =>
     LET p == Get(Get(held).filter_rate)
         N == data_size
         T == Get(outcome.value).id
     IN  /\ outcome.status = "return"
         /\ outcome.value # None
         /\ Nearest(T, p, N)
         /\ (p \in {50, 100} /\ (p * N) % 100 = 50) => T % 2 = 0
         /\ T \in 0..N
         /\ N <= SizeStep * (MaxSlices + 1) =>
              Cardinality({ i \in Ordinals(N) : i >= T }) = N - T
         /\ (p = 1 /\ N = 1000000) => T = 10000
         /\ (p = 99 /\ N = 1000000) => T = 990000

\* C3 witness: a 70% descriptor whose dataset was resized to 45 records has
\* been asked for its filters: 0.7 * 45 is the double below 31.5, the
\* threshold is 31 and 14 of the 45 ordinals satisfy the predicate.
C3_Witness ==
  /\ outcome.op = "filters"
  /\ held # None
  /\ Get(held).filter_rate = Some(70)
  /\ data_size = SizeStep
  /\ SizeStep = 45
  /\ Get(outcome.value).id = 31
  /\ Cardinality({ i \in Ordinals(data_size) : i >= Get(outcome.value).id }) = 14

\* C4 as stated: filters fails with InvalidFilterConfigurationError when the
\* record count is zero or the ratio is set but outside (0,1]; no predicate
\* is returned then.
C4_InvalidConfigurationRaises ==
  (/\ outcome.op = "filters"
   /\ Get(held).filter_rate # None
   /\ \/ data_size = 0
      \/ Get(Get(held).filter_rate) \notin 1..100) =>
     /\ outcome.status = "raise"
     /\ outcome.exc = "InvalidFilterConfigurationError"

\* The catalog descriptors of a state: the one held and the one just returned.
CatalogDescriptors ==
  { d \in (IF held # None THEN {Get(held)} ELSE {})
            \cup (IF outcome.op = "resolve" /\ outcome.status = "return"
                  THEN {outcome.value} ELSE {}) : d.case_id # "Custom" }

\* C5: every descriptor constructed from the catalog has optimize_timeout
\* present when its label is Performance and None when its label is Load.
C5_OptimizeTimeoutByLabel ==
  \A d \in CatalogDescriptors :
     /\ d.label \in CaseLabel
     /\ d.label = "Performance" => d.optimize_timeout # None
     /\ d.label = "Load" => d.optimize_timeout = None

\* C5 witness: a Load descriptor is held and a Performance descriptor has just
\* been constructed.
C5_Witness ==
  /\ held # None
  /\ Get(held).case_id = "CapacityDim960"
  /\ Get(held).label = "Load"
  /\ Get(held).optimize_timeout = None
  /\ outcome.op = "resolve"
  /\ outcome.status = "return"
  /\ outcome.value.label = "Performance"
  /\ outcome.value.optimize_timeout # None

RegisteredConstructors == { type2case[i][2] : i \in DOMAIN type2case }

\* C6: type2case is a bijection between the identifiers other than Custom and
\* the concrete case classes: a pair for every such identifier, none for
\* Custom, no constructor under two identifiers; so case_cls returns a
\* constructor exactly for the identifiers other than Custom.
C6_RegistryBijection ==
  /\ { type2case[i][1] : i \in DOMAIN type2case } = CaseTypeSet \ {"Custom"}
  /\ RegisteredConstructors = ConcreteCases
  /\ \A i, j \in DOMAIN type2case :
        i # j => /\ type2case[i][1] # type2case[j][1]
                 /\ type2case[i][2] # type2case[j][2]
  /\ outcome.op = "case_cls" =>
        /\ (outcome.value # None) <=> (outcome.arg # "Custom")
        /\ outcome.value # None => Get(outcome.value) \in ConcreteCases

\* C6 witness: case_cls of the last registered identifier returned its class.
C6_Witness ==
  /\ outcome.op = "case_cls"
  /\ outcome.arg = type2case[Len(type2case)][1]
  /\ outcome.value = Some("Performance128D500K10P")

NoDuplicates(seq) == \A i, j \in DOMAIN seq : i # j => seq[i] # seq[j]

\* C7 as stated: at every point of a run list(CaseType) has no duplicates and
\* is as long as the number of constructors registered in type2case.
C7_ListLengthIsRegistered ==
  outcome.status \in {"return", "raise"} =>
     /\ NoDuplicates(CaseTypeList)
     /\ Len(CaseTypeList) = Cardinality(RegisteredConstructors)

\* C7 amended: list(CaseType) has no duplicates and is one longer than the
\* number of constructors registered in type2case: its last member, Custom,
\* is the one member without a constructor.
C7_ListLengthIsRegisteredPlusCustom ==
  /\ NoDuplicates(CaseTypeList)
  /\ Len(CaseTypeList) = Cardinality(RegisteredConstructors) + 1
  /\ { i \in DOMAIN CaseTypeList : ~Registered(CaseTypeList[i]) }
       = { Len(CaseTypeList) }
  /\ CaseTypeList[Len(CaseTypeList)] = "Custom"
  /\ (outcome.op = "resolve" /\ outcome.status = "raise") =>
        outcome.arg = CaseTypeList[Len(CaseTypeList)]

\* C7 witness: the last member of the list has been resolved, and no
\* descriptor came of it.
C7_Witness ==
  /\ outcome.op = "resolve"
  /\ outcome.arg = CaseTypeList[Len(CaseTypeList)]
  /\ outcome.status = "raise"

Accessors == {"case_name", "case_description"}

\* The accessors return the fields of the descriptor constructed for the
\* same identifier.
AccessorsProject ==
  (/\ outcome.op \in Accessors
   /\ held # None
   /\ Get(held).case_id = outcome.arg
   /\ Registered(outcome.arg)) =>
     /\ outcome.status = "return"
     /\ outcome.op = "case_name" => outcome.value = Get(held).name
     /\ outcome.op = "case_description" => outcome.value = Get(held).description

\* C8 as stated: the accessors return the fields of the descriptor resolve
\* constructs, and for an unsupported identifier they fail with the error
\* that resolve (case_cls) produces for it.
C8_AccessorsFailAsResolve ==
  /\ AccessorsProject
  /\ (outcome.op \in Accessors /\ ~Registered(outcome.arg)) =>
        /\ outcome.status = "raise"
        /\ case_cls_of[outcome.arg].status = "raise"
        /\ case_cls_of[outcome.arg].exc = outcome.exc

\* C8 amended: the accessors return the fields of the descriptor resolve
\* constructs, and for an unsupported identifier they raise ValueError
\* "Case unsupported", while case_cls raises nothing for it and returns None.
C8_AccessorsRaiseValueError ==
  /\ AccessorsProject
  /\ (outcome.op \in Accessors /\ ~Registered(outcome.arg)) =>
        /\ outcome.status = "raise"
        /\ outcome.exc = "ValueError: Case unsupported"
        /\ case_cls_of[outcome.arg].status = "return"
        /\ case_cls_of[outcome.arg].value = None

\* C8 witness: the name of an identifier has been read while the descriptor
\* resolved from it is held.
C8_Witness ==
  /\ outcome.op = "case_name"
  /\ held # None
  /\ Get(held).case_id = outcome.arg
  /\ outcome.status = "return"
  /\ outcome.value = "Search Performance Test (10M Dataset, 768 Dim)"

\* C9: a request of filters made after the dataset of the same descriptor
\* changed size since the previous request returns the threshold round(r * N)
\* of the size as it is now, not the threshold of the earlier size.
C9_ThresholdFollowsSize ==
  [][ (/\ outcome'.op = "filters"
       /\ held' = held
       /\ prev # None
       /\ Get(prev).size # data_size
       /\ Get(held).filter_rate # None) =>
         LET p    == Get(Get(held).filter_rate)
             T    == Get(outcome'.value).id
             Told == Get(Get(prev).value).id
         IN  /\ Get(prev').changed
             /\ Nearest(T, p, data_size')
             /\ ~Nearest(Told, p, data_size') => T # Told ]_vars

\* C9 witness: a second request read another size than the first and
\* returned the threshold of the new size, 41 of 45 at 90%.
C9_Witness ==
  /\ outcome.op = "filters"
  /\ prev # None
  /\ Get(prev).changed
  /\ Get(held).filter_rate = Some(90)
  /\ Get(held).dataset.size = 100000
  /\ data_size = SizeStep
  /\ Get(outcome.value).id = round_product(90, SizeStep)
  /\ Get(outcome.value).id < SizeStep

FieldsOf(d) ==
  <<d.case_id, d.label, d.name, d.description, d.dataset,
    d.load_timeout, d.optimize_timeout, d.filter_rate>>

C11_DescriptorImmutable ==
  [][ held # None =>
        /\ outcome'.op \in {"case_cls", "case_name", "case_description", "filters"} =>
              /\ held' = held
              /\ FieldsOf(Get(held')) = FieldsOf(Get(held))
              /\ data_size' = data_size
        /\ outcome'.op = "resolve" =>
              \/ held' = held /\ data_size' = data_size
              \/ outcome'.status = "return" /\ held' = Some(outcome'.value) ]_vars

\* C11 witness: after filters was requested on the held descriptor and an
\* accessor was read, the held descriptor still has the fields it was
\* constructed with.
C11_Witness ==
  /\ outcome.op = "case_description"
  /\ prev # None
  /\ Get(prev).value # None
  /\ held # None
  /\ Get(held).case_id # "Custom"
  /\ Get(held) = resolve_of[Get(held).case_id].value

\* C12: the catalog entry Performance768D10M1P (10,000,000 records, 1%
\* filter) yields a descriptor whose filters is present with threshold
\* 100,000; each of the two capacity entries yields a descriptor whose filters
\* is None and whose optimize_timeout is None.
C12_EndToEnd ==
  /\ (/\ outcome.op = "filters"
      /\ Get(held).case_id = "Performance768D10M1P"
      /\ data_size = Get(held).dataset.size) =>
        /\ Get(held).dataset.size = 10000000
        /\ outcome.value # None
        /\ Get(outcome.value).id = 100000
  /\ (/\ outcome.op = "filters"
      /\ Get(held).case_id \in {"CapacityDim960", "CapacityDim128"}) =>
        /\ Get(held).label = "Load"
        /\ outcome.value = None
        /\ Get(held).optimize_timeout = None
  /\ (/\ outcome.op = "resolve"
      /\ outcome.arg \in {"CapacityDim960", "CapacityDim128"}) =>
        /\ outcome.status = "return"
        /\ outcome.value.label = "Load"
        /\ outcome.value.filter_rate = None
        /\ outcome.value.optimize_timeout = None

\* C12 witness: filters of the freshly constructed Performance768D10M1P has
\* been requested and carries 100,000.
C12_Witness ==
  /\ outcome.op = "filters"
  /\ held # None
  /\ Get(held).case_id = "Performance768D10M1P"
  /\ data_size = 10000000
  /\ outcome.value # None
  /\ Get(outcome.value).id = 100000
  /\ Get(outcome.value).metadata = ">=100000"

ComposedFields == {"label", "load_timeout", "optimize_timeout", "filter_rate"}

\* The class a catalog descriptor was constructed from and its family.
Scenario(d) == Get(dict_get(type2case, d.case_id))
Family(d) == ClassDef(Scenario(d)).base

\* C13: every catalog descriptor is composed as family default, then scenario
\* override: each of label, load_timeout, optimize_timeout and filter_rate is
\* the value the scenario's own class body declares when it declares one, and
\* otherwise the default of its family (CapacityCase or PerformanceCase).
C13_ScenarioOverridesFamily ==
  \A d \in CatalogDescriptors :
     /\ Family(d) \in {"CapacityCase", "PerformanceCase"}
     /\ \A f \in ComposedFields :
           d[f] = IF f \in DOMAIN ClassDef(Scenario(d)).body
                  THEN ClassDef(Scenario(d)).body[f]
                  ELSE ClassDef(Family(d)).body[f]

\* C13 witness: a held Load descriptor takes load_timeout from its family, and
\* the Performance768D10M descriptor just constructed carries the load_timeout
\* its own class declares, which is not the family's.
C13_Witness ==
  /\ held # None
  /\ Get(held).case_id = "CapacityDim960"
  /\ "load_timeout" \notin DOMAIN ClassDef("CapacityDim960").body
  /\ Get(held).load_timeout = ClassDef("CapacityCase").body.load_timeout
  /\ outcome.op = "resolve"
  /\ outcome.status = "return"
  /\ outcome.value.case_id = "Performance768D10M"
  /\ outcome.value.load_timeout = ClassDef("Performance768D10M").body.load_timeout
  /\ outcome.value.load_timeout # ClassDef("PerformanceCase").body.load_timeout

Digit(d) ==
  CASE d = 0 -> "0" [] d = 1 -> "1" [] d = 2 -> "2" [] d = 3 -> "3"
    [] d = 4 -> "4" [] d = 5 -> "5" [] d = 6 -> "6" [] d = 7 -> "7"
    [] d = 8 -> "8" [] d = 9 -> "9"

\* The decimal numeral of a natural number.
RECURSIVE Decimal(_)
Decimal(n) == IF n < 10 THEN Digit(n) ELSE Decimal(n \div 10) \o Digit(n % 10)

\* C15: filters is None exactly when the descriptor's filter_rate is None;
\* when present it has exactly the keys "id" and "metadata", "id" a
\* non-negative integer and "metadata" the text ">=" followed by the numeral
\* of that same integer.
C15_PredicatePresentIffRate ==
  (outcome.op = "filters" /\ outcome.status = "return") =>
     /\ outcome.value = None <=> Get(held).filter_rate = None
     /\ outcome.value # None =>
           /\ DOMAIN Get(outcome.value) = {"id", "metadata"}
           /\ Get(outcome.value).id \in Nat
           /\ Get(outcome.value).metadata = ">=" \o Decimal(Get(outcome.value).id)

\* C15 witness: a descriptor whose filter_rate is 0.0 (present, though false
\* as a truth value) has been asked for filters and got the predicate with
\* threshold 0.
C15_Witness ==
  /\ outcome.op = "filters"
  /\ held # None
  /\ Get(held).filter_rate = Some(0)
  /\ outcome.value # None
  /\ Get(outcome.value).id = 0
  /\ Get(outcome.value).metadata = ">=0"

=============================================================================
